---------------------------- MODULE Spec2Model ----------------------------
(***************************************************************************)
(* Model of create_powerpoint.py: a script that builds a five-slide deck   *)
(* with python-pptx and saves it once.                                     *)
(*                                                                         *)
(* The script is modelled statement by statement.  Script is the sequence  *)
(* of statements of create_presentation() in source order (for-loops are   *)
(* expanded by iterating over their lists exactly as the loops do); the    *)
(* actions below execute one statement each, against a deck that is a      *)
(* sequence of slides, each a sequence of shapes, each text box holding a  *)
(* sequence of paragraphs.  Every statement up to and including the save   *)
(* may raise (the environment picks the exception, a subclass of           *)
(* Exception), and main()'s two except clauses handle it; print does not   *)
(* raise.                                                                  *)
(*                                                                         *)
(* Lengths are in hundredths of an inch in the statements (13.33 in is     *)
(* 1333) and are converted to the library's integer EMU by Inches, as      *)
(* pptx.util.Inches does: int(inches * 914400).  For every length of the   *)
(* script the float product is exact, so the integer division below gives  *)
(* the same EMU value.                                                     *)
(*                                                                         *)
(* Strings are transliterated to ASCII: the bullet U+2022 is "* ", the     *)
(* arrow U+2192 is "->", the check mark U+2705 is "[v]", and the box       *)
(* drawing characters of the architecture diagram are + - and |.           *)
(***************************************************************************)
EXTENDS Integers, Sequences, FiniteSets, TLC

(***************************************************************************)
(* Bounds of the model.                                                    *)
(***************************************************************************)
\* number of times the program is run, one after the other
MaxRuns == 2

(***************************************************************************)
(* pptx.util                                                               *)
(***************************************************************************)
\* Inches(x): int(x * 914400), x given in hundredths of an inch
Inches(h) == (h * 914400) \div 100

\* Pt(x): int(x * 12700)
Pt(p) == p * 12700

(***************************************************************************)
(* Colours (lines 31-35)                                                   *)
(***************************************************************************)
BLUE == <<102, 126, 234>>
PURPLE == <<118, 75, 162>>
GOLD == <<255, 215, 0>>
GREEN == <<144, 238, 144>>
WHITE == <<255, 255, 255>>

\* the output path of line 322
OutputPath == "Agentic_Workflow_Reviewer_Presentation.pptx"

(***************************************************************************)
(* Statements.  Every statement carries the source line it stands for.     *)
(* Named locals (slide1, title_box, p, ...) hold references                *)
(* [slide, shape, para] into the deck.                                     *)
(***************************************************************************)
\* a length argument: a literal, or the local x or y of the feature loop
Lit(n) == [var |-> "", val |-> n]
Loc(v) == [var |-> v, val |-> 0]

\* prs = Presentation()
SNew(line) == [op |-> "Presentation", line |-> line]
\* prs.slide_width = Inches(w) ; prs.slide_height = Inches(h)
SSize(line, attr, h) == [op |-> "slide_size", line |-> line, attr |-> attr, val |-> h]
\* v = prs.slides.add_slide(prs.slide_layouts[6])
SAddSlide(line, v) == [op |-> "add_slide", line |-> line, into |-> v]
\* v = slide.shapes.add_shape(MSO_SHAPE.RECTANGLE, 0, 0, prs.slide_width, prs.slide_height)
SAddShape(line, v, slide) == [op |-> "add_shape", line |-> line, into |-> v, slide |-> slide]
\* v.fill.solid() ; v.fill.fore_color.rgb = c ; v.line.fill.background()
SShape(line, v, attr, val) == [op |-> "style_shape", line |-> line, of |-> v, attr |-> attr, val |-> val]
\* v = slide.shapes.add_textbox(Inches(l), Inches(t), Inches(w), Inches(h))
SAddTextbox(line, v, slide, l, t, w, h) ==
    [op |-> "add_textbox", line |-> line, into |-> v, slide |-> slide,
     l |-> l, t |-> t, w |-> w, h |-> h]
\* v = box.text_frame
SFrame(line, v, box) == [op |-> "text_frame", line |-> line, into |-> v, of |-> box]
\* frame.text = text   (text is the sequence of the lines of the string)
SText(line, frame, text) == [op |-> "frame_text", line |-> line, of |-> frame, text |-> text]
\* v = frame.paragraphs[0]
SPara0(line, v, frame) == [op |-> "paragraphs0", line |-> line, into |-> v, of |-> frame]
\* para.alignment / para.font.size / para.font.color.rgb / para.font.bold /
\* para.font.name / para.space_before = val
SPara(line, para, attr, val) == [op |-> "style_para", line |-> line, of |-> para, attr |-> attr, val |-> val]
\* v = frame.add_paragraph()
SAddParagraph(line, v, frame) == [op |-> "add_paragraph", line |-> line, into |-> v, of |-> frame]
\* p.text = text
SPText(line, para, text) == [op |-> "para_text", line |-> line, of |-> para, text |-> text]
\* x, y = seq[i]   (i is the 0-based index enumerate() yields)
SUnpack(line, seq, i) == [op |-> "unpack", line |-> line, seq |-> seq, i |-> i]
\* prs.save(path)
SSave(line, path) == [op |-> "save", line |-> line, path |-> path]
\* print(text)
SPrint(line, text) == [op |-> "print", line |-> line, text |-> text]

\* the concatenation of a sequence of sequences
RECURSIVE Flatten(_)
Flatten(ss) == IF ss = <<>> THEN <<>> ELSE Head(ss) \o Flatten(Tail(ss))

\* the bullet marker of the f-strings of lines 121, 144, 262, 305
Bullet == "* "

(***************************************************************************)
(* The literal lists of the script                                         *)
(***************************************************************************)
\* challenges, lines 112-117
challenges ==
    << "DevOps teams struggle with complex workflow optimization",
       "Manual review processes are time-consuming and error-prone",
       "Different optimization goals require different expertise",
       "No unified system for comprehensive workflow analysis" >>

\* solutions, lines 135-140
solutions ==
    << "Decomposition: Complex analysis -> specialized agents",
       "Expertise: Each agent focuses on domain knowledge",
       "Scalability: Parallel processing + intelligent caching",
       "Human-in-the-loop: Interactive goal changes" >>

\* features, lines 223-244: (feature_title, feature_items) pairs
features ==
    << << "Specs & Requirements",
          << "Formal requirements.md, design.md, tasks.md",
             "Property-based testing specifications",
             "Incremental development tracking" >> >>,
       << "Agent Orchestration",
          << "4 specialized AI agents",
             "Sequential execution with data flow",
             "Error handling & graceful degradation" >> >>,
       << "Workflow Automation",
          << "Intelligent caching (2.8x performance)",
             "Goal-specific re-analysis",
             "Human-in-the-loop feedback" >> >>,
       << "Development Tools",
          << "TypeScript integration",
             "Jest + property-based testing",
             "Next.js + Mantine UI" >> >> >>

\* a 2x2 grid whose second row starts at 3 in, inside the first row's boxes
positionsOverlapping == << <<50, 150>>, <<650, 150>>, <<50, 300>>, <<650, 300>> >>

\* a 2x2 grid whose second column starts at 7.5 in, so that it ends at 13.5 in
positionsTooFarRight == << <<50, 150>>, <<750, 150>>, <<50, 400>>, <<750, 400>> >>

\* positions, line 246, in hundredths of an inch
positions == << <<50, 150>>, <<650, 150>>, <<50, 400>>, <<650, 400>> >>

\* takeaways, lines 296-301
takeaways ==
    << "Agentic Design: Multi-agent systems excel at complex analysis",
       "Kiro Integration: Specs + workflows + testing = robust development",
       "Performance Matters: Intelligent caching transforms UX",
       "Iterative Value: Goal-based re-analysis provides perspectives" >>

\* architecture_text, lines 171-193: the 23 lines of the string
architecture_text ==
    << "+-------------------------------------------------------------+",
       "|                    Web Interface Layer [v]                  |",
       "|  +-----------------+  +-----------------+  +-------------+ |",
       "|  |   Input Form    |  |  Results View   |  | Goal Selector| |",
       "|  |  (Implemented)  |  |  (Implemented)  |  | (Implemented)| |",
       "|  +-----------------+  +-----------------+  +-------------+ |",
       "+-------------------------------------------------------------+",
       "                                |",
       "+-------------------------------------------------------------+",
       "|                 Agent Orchestration Layer [v]               |",
       "|  +-----------------+  +-----------------+  +-------------+ |",
       "|  | Analysis Engine |  |  Goal Context   |  | Result Cache| |",
       "|  |  (Implemented)  |  |  (Implemented)  |  | (Implemented)| |",
       "|  +-----------------+  +-----------------+  +-------------+ |",
       "+-------------------------------------------------------------+",
       "                                |",
       "+-------------------------------------------------------------+",
       "|                    Agent Processing Layer [v]               |",
       "|  +-------------+ +-------------+ +-------------+ +---------+|",
       "|  |Parser Agent | |Risk Analyzer| |Optimization | | Critic  ||",
       "|  |(Implemented)| |(Implemented)| |(Implemented)| |(Impl.)  ||",
       "|  +-------------+ +-------------+ +-------------+ +---------+|",
       "+-------------------------------------------------------------+" >>

(***************************************************************************)
(* The statements of create_presentation(), lines 20-325                   *)
(***************************************************************************)
\* lines 24-28: the deck and its canvas
Prologue ==
    << SNew(24),
       SSize(27, "slide_width", 1333),
       SSize(28, "slide_height", 750) >>

\* a background rectangle: add_shape and its three styling calls
\* (lines 41-46, 89-92, 153-156, 208-211, 271-274)
BackgroundStmts(line, v, slide) ==
    << SAddShape(line, v, slide),
       SShape(line + 1, v, "fill.solid", TRUE),
       SShape(line + 2, v, "fill.fore_color.rgb", BLUE),
       SShape(line + 3, v, "line.fill.background", TRUE) >>

\* lines 37-83: the title slide
Slide1 ==
    << SAddSlide(38, "slide1") >>
    \o BackgroundStmts(43, "background", "slide1")
    \o << SAddTextbox(49, "title_box", "slide1", Lit(100), Lit(200), Lit(1133), Lit(150)),
          SFrame(50, "title_frame", "title_box"),
          SText(51, "title_frame", << "Agentic Workflow Reviewer" >>),
          SPara0(52, "title_para", "title_frame"),
          SPara(53, "title_para", "alignment", "CENTER"),
          SPara(54, "title_para", "font.size", Pt(48)),
          SPara(55, "title_para", "font.color.rgb", WHITE),
          SPara(56, "title_para", "font.bold", TRUE),
          SAddTextbox(59, "subtitle_box", "slide1", Lit(100), Lit(350), Lit(1133), Lit(100)),
          SFrame(60, "subtitle_frame", "subtitle_box"),
          SText(61, "subtitle_frame", << "AI-Powered Multi-Agent Workflow Analysis & Optimization" >>),
          SPara0(62, "subtitle_para", "subtitle_frame"),
          SPara(63, "subtitle_para", "alignment", "CENTER"),
          SPara(64, "subtitle_para", "font.size", Pt(24)),
          SPara(65, "subtitle_para", "font.color.rgb", WHITE),
          SAddTextbox(68, "kiro_box", "slide1", Lit(100), Lit(500), Lit(1133), Lit(80)),
          SFrame(69, "kiro_frame", "kiro_box"),
          SText(70, "kiro_frame", << "Built with Kiro.dev" >>),
          SPara0(71, "kiro_para", "kiro_frame"),
          SPara(72, "kiro_para", "alignment", "CENTER"),
          SPara(73, "kiro_para", "font.size", Pt(20)),
          SPara(74, "kiro_para", "font.color.rgb", GOLD),
          SAddTextbox(77, "date_box", "slide1", Lit(100), Lit(600), Lit(1133), Lit(50)),
          SFrame(78, "date_frame", "date_box"),
          SText(79, "date_frame", << "Kiro Hackathon * January 2026" >>),
          SPara0(80, "date_para", "date_frame"),
          SPara(81, "date_para", "alignment", "CENTER"),
          SPara(82, "date_para", "font.size", Pt(16)),
          SPara(83, "date_para", "font.color.rgb", WHITE) >>

\* one iteration of a bullet loop on its k-th item: p = frame.add_paragraph(),
\* p.text = f"<bullet> {item}" and the styling of p (lines 120-124, 143-147,
\* 261-265, 304-309); centered adds the alignment of line 309
BulletBody(line, frame, item, size, space, centered) ==
    << SAddParagraph(line, "p", frame),
       SPText(line + 1, "p", Bullet \o item),
       SPara(line + 2, "p", "font.size", Pt(size)),
       SPara(line + 3, "p", "font.color.rgb", WHITE),
       SPara(line + 4, "p", "space_before", Pt(space)) >>
    \o IF centered THEN << SPara(line + 5, "p", "alignment", "CENTER") >> ELSE << >>

\* a bullet loop that starts at the second item
BulletLoopSkipFirst(line, frame, items, size, space, centered) ==
    Flatten([k \in 1..(Len(items) - 1) |->
                BulletBody(line, frame, items[k + 1], size, space, centered)])

\* for item in items: one iteration per item, in list order
BulletLoop(line, frame, items, size, space, centered) ==
    Flatten([k \in 1..Len(items) |->
                BulletBody(line, frame, items[k], size, space, centered)])

\* lines 85-147: the problem statement slide
Slide2 ==
    << SAddSlide(86, "slide2") >>
    \o BackgroundStmts(89, "bg2", "slide2")
    \o << SAddTextbox(95, "title2_box", "slide2", Lit(50), Lit(50), Lit(1233), Lit(100)),
          SFrame(96, "title2_frame", "title2_box"),
          SText(97, "title2_frame", << "Problem Statement & Vision" >>),
          SPara0(98, "title2_para", "title2_frame"),
          SPara(99, "title2_para", "font.size", Pt(36)),
          SPara(100, "title2_para", "font.color.rgb", GOLD),
          SPara(101, "title2_para", "font.bold", TRUE),
          SAddTextbox(104, "challenge_box", "slide2", Lit(50), Lit(150), Lit(600), Lit(300)),
          SFrame(105, "challenge_frame", "challenge_box"),
          SText(106, "challenge_frame", << "The Challenge" >>),
          SPara0(107, "challenge_para", "challenge_frame"),
          SPara(108, "challenge_para", "font.size", Pt(24)),
          SPara(109, "challenge_para", "font.color.rgb", GREEN),
          SPara(110, "challenge_para", "font.bold", TRUE) >>
    \o BulletLoop(120, "challenge_frame", challenges, 16, 6, FALSE)
    \o << SAddTextbox(127, "solution_box", "slide2", Lit(650), Lit(150), Lit(600), Lit(300)),
          SFrame(128, "solution_frame", "solution_box"),
          SText(129, "solution_frame", << "Why Agents + Kiro?" >>),
          SPara0(130, "solution_para", "solution_frame"),
          SPara(131, "solution_para", "font.size", Pt(24)),
          SPara(132, "solution_para", "font.color.rgb", GREEN),
          SPara(133, "solution_para", "font.bold", TRUE) >>
    \o BulletLoop(143, "solution_frame", solutions, 16, 6, FALSE)

\* lines 149-199: the architecture slide
Slide3 ==
    << SAddSlide(150, "slide3") >>
    \o BackgroundStmts(153, "bg3", "slide3")
    \o << SAddTextbox(159, "title3_box", "slide3", Lit(50), Lit(50), Lit(1233), Lit(100)),
          SFrame(160, "title3_frame", "title3_box"),
          SText(161, "title3_frame", << "Multi-Agent System Architecture" >>),
          SPara0(162, "title3_para", "title3_frame"),
          SPara(163, "title3_para", "font.size", Pt(36)),
          SPara(164, "title3_para", "font.color.rgb", GOLD),
          SPara(165, "title3_para", "font.bold", TRUE),
          SAddTextbox(168, "arch_box", "slide3", Lit(100), Lit(150), Lit(1133), Lit(550)),
          SFrame(169, "arch_frame", "arch_box"),
          SText(195, "arch_frame", architecture_text),
          SPara0(196, "arch_para", "arch_frame"),
          SPara(197, "arch_para", "font.name", "Courier New"),
          SPara(198, "arch_para", "font.size", Pt(11)),
          SPara(199, "arch_para", "font.color.rgb", WHITE) >>

\* one iteration of the feature loop, lines 248-265; i is the 0-based index
\* of enumerate(features)
FeatureBody(i, feature_title, feature_items) ==
    << SUnpack(249, positions, i),
       SAddTextbox(252, "feature_box", "slide4", Loc("x"), Loc("y"), Lit(600), Lit(250)),
       SFrame(253, "feature_frame", "feature_box"),
       SText(254, "feature_frame", << "[v] " \o feature_title >>),
       SPara0(255, "feature_para", "feature_frame"),
       SPara(256, "feature_para", "font.size", Pt(18)),
       SPara(257, "feature_para", "font.color.rgb", GREEN),
       SPara(258, "feature_para", "font.bold", TRUE) >>
    \o BulletLoop(261, "feature_frame", feature_items, 14, 4, FALSE)

\* for i, (feature_title, feature_items) in enumerate(features)
FeatureLoop ==
    Flatten([k \in 1..Len(features) |->
                FeatureBody(k - 1, features[k][1], features[k][2])])

\* lines 204-265: the features slide
Slide4 ==
    << SAddSlide(205, "slide4") >>
    \o BackgroundStmts(208, "bg4", "slide4")
    \o << SAddTextbox(214, "title4_box", "slide4", Lit(50), Lit(50), Lit(1233), Lit(100)),
          SFrame(215, "title4_frame", "title4_box"),
          SText(216, "title4_frame", << "Kiro Features Leveraged (30% of Grade)" >>),
          SPara0(217, "title4_para", "title4_frame"),
          SPara(218, "title4_para", "font.size", Pt(32)),
          SPara(219, "title4_para", "font.color.rgb", GOLD),
          SPara(220, "title4_para", "font.bold", TRUE) >>
    \o FeatureLoop

\* lines 267-319: the closing slide
FinalSlide ==
    << SAddSlide(268, "final_slide") >>
    \o BackgroundStmts(271, "bg_final", "final_slide")
    \o << SAddTextbox(277, "final_title_box", "final_slide", Lit(100), Lit(150), Lit(1133), Lit(150)),
          SFrame(278, "final_title_frame", "final_title_box"),
          SText(279, "final_title_frame", << "Thank You & Q&A" >>),
          SPara0(280, "final_title_para", "final_title_frame"),
          SPara(281, "final_title_para", "alignment", "CENTER"),
          SPara(282, "final_title_para", "font.size", Pt(48)),
          SPara(283, "final_title_para", "font.color.rgb", WHITE),
          SPara(284, "final_title_para", "font.bold", TRUE),
          SAddTextbox(287, "takeaways_box", "final_slide", Lit(200), Lit(350), Lit(933), Lit(200)),
          SFrame(288, "takeaways_frame", "takeaways_box"),
          SText(289, "takeaways_frame", << "Key Takeaways" >>),
          SPara0(290, "takeaways_para", "takeaways_frame"),
          SPara(291, "takeaways_para", "alignment", "CENTER"),
          SPara(292, "takeaways_para", "font.size", Pt(24)),
          SPara(293, "takeaways_para", "font.color.rgb", GREEN),
          SPara(294, "takeaways_para", "font.bold", TRUE) >>
    \o BulletLoop(304, "takeaways_frame", takeaways, 16, 6, TRUE)
    \o << SAddTextbox(312, "questions_box", "final_slide", Lit(100), Lit(550), Lit(1133), Lit(100)),
          SFrame(313, "questions_frame", "questions_box"),
          SText(314, "questions_frame", << "Questions & Discussion" >>),
          SPara0(315, "questions_para", "questions_frame"),
          SPara(316, "questions_para", "alignment", "CENTER"),
          SPara(317, "questions_para", "font.size", Pt(28)),
          SPara(318, "questions_para", "font.color.rgb", GOLD),
          SPara(319, "questions_para", "font.bold", TRUE) >>

\* lines 321-325: save, then the three lines of the success report
Epilogue ==
    << SSave(322, OutputPath),
       SPrint(323, "[v] PowerPoint presentation created: " \o OutputPath),
       SPrint(324, "Slides created: Title, Problem Statement, Architecture, Kiro Features, Thank You"),
       SPrint(325, "Ready for Kiro Hackathon presentation!") >>

\* the script with the save moved before the closing slide
ScriptSaveEarly ==
    Prologue \o Slide1 \o Slide2 \o Slide3 \o Slide4 \o Epilogue \o FinalSlide

\* the script with the architecture and the features slides exchanged
ScriptSwapped ==
    Prologue \o Slide1 \o Slide2 \o Slide4 \o Slide3 \o FinalSlide \o Epilogue

\* the body of create_presentation(), lines 20-325, in source order
Script ==
    Prologue \o Slide1 \o Slide2 \o Slide3 \o Slide4 \o FinalSlide \o Epilogue

(***************************************************************************)
(* State                                                                   *)
(***************************************************************************)
VARIABLES
    installed,  \* whether `import pptx` succeeds in this environment
    run,        \* the number of the current run of the program, 1..MaxRuns
    pc,         \* "import", "main", "body", "except", "done" or "crashed"
    ip,         \* inside create_presentation(): the index of the next statement
    prs,        \* the local prs: the deck under construction
    locals,     \* the other locals that hold objects: name -> reference
    xy,         \* the locals x, y of line 249
    exc,        \* the exception being propagated, or NoExc
    caught,     \* the exception an except clause of main() has handled, or NoExc
    out,        \* what this run has printed on stdout, a sequence of lines
    file,       \* the file at OutputPath; it outlives a run
    saveCalls,  \* how many times this run has invoked prs.save
    calls,      \* how many times this run has invoked create_presentation
    built       \* run -> the deck that run passed to a save that returned

vars == << installed, run, pc, ip, prs, locals, xy, exc, caught, out, file,
           saveCalls, calls, built >>

\* no deck: prs before line 24 has run
NoPrs == [open |-> FALSE, slide_width |-> 0, slide_height |-> 0, slides |-> << >>]

\* no file at OutputPath
NoFile == [exists |-> FALSE, complete |-> FALSE, deck |-> NoPrs]

NoExc == [cls |-> "", msg |-> "", injected |-> FALSE]

(***************************************************************************)
(* Exceptions: the classes the model raises and Python's hierarchy         *)
(***************************************************************************)
\* the base class of a class (Python's built-in exception hierarchy)
BaseOf(cls) ==
    CASE cls = "ModuleNotFoundError" -> "ImportError"
      [] cls = "PermissionError" -> "OSError"
      [] cls = "IndexError" -> "LookupError"
      [] cls = "Exception" -> "BaseException"
      [] cls = "BaseException" -> "object"
      [] OTHER -> "Exception"

\* isinstance(e, target) for an exception of class cls
RECURSIVE IsInstance(_, _)
IsInstance(cls, target) ==
    IF cls = target THEN TRUE
    ELSE IF cls = "object" THEN FALSE
    ELSE IsInstance(BaseOf(cls), target)

\* the classes a statement of the construction is made to raise, all of them
\* subclasses of Exception
ConstructionErrors == {"ModuleNotFoundError", "ImportError", "ValueError", "IndexError"}

\* the classes prs.save is made to raise
SaveErrors == {"PermissionError", "OSError", "ImportError"}

\* str(e) of the raised exceptions
Messages == {"invalid value", "unsupported operation"}

(***************************************************************************)
(* main()'s except clauses, lines 331-336                                  *)
(***************************************************************************)
\* clause selection that compares the class instead of using isinstance
ExceptClauseExact(e) ==
    IF e.cls = "ImportError" THEN "ImportError"
    ELSE IF IsInstance(e.cls, "Exception") THEN "Exception"
    ELSE "none"

\* the first except clause of main() that matches e
ExceptClause(e) ==
    IF IsInstance(e.cls, "ImportError") THEN "ImportError"
    ELSE IF IsInstance(e.cls, "Exception") THEN "Exception"
    ELSE "none"

\* lines 332-334
InstallHint ==
    << "Error: python-pptx library not found",
       "Install with: pip install python-pptx",
       "Then run: python create_powerpoint.py" >>

\* a report that leaves the message out
ErrorLineWithoutMessage(e) == "Error creating presentation"

\* line 336: f"Error creating presentation: {e}"
ErrorLine(e) == "Error creating presentation: " \o e.msg

(***************************************************************************)
(* The deck: shapes, paragraphs and the library calls on them              *)
(***************************************************************************)
\* a paragraph as the library creates it: text and no formatting of its own
NewParagraph(text) ==
    [text |-> text, alignment |-> "", size |-> 0, rgb |-> << >>, bold |-> FALSE,
     name |-> "", space_before |-> 0]

\* the auto shape add_shape(MSO_SHAPE.RECTANGLE, left, top, width, height) creates
Rectangle(left, top, width, height) ==
    [kind |-> "rectangle", left |-> left, top |-> top, width |-> width,
     height |-> height, fill |-> "", rgb |-> << >>, line |-> "",
     paragraphs |-> << >>]

\* the text box add_textbox(left, top, width, height) creates: one empty paragraph
Textbox(left, top, width, height) ==
    [kind |-> "textbox", left |-> left, top |-> top, width |-> width,
     height |-> height, fill |-> "", rgb |-> << >>, line |-> "",
     paragraphs |-> << NewParagraph("") >>]

\* the rectangle of lines 41-43: (0, 0, prs.slide_width, prs.slide_height)
Background(deck) == Rectangle(0, 0, deck.slide_width, deck.slide_height)

\* a shape collection that puts the new shape below the others
ShapesInsertFirst(shapes, shape) == << shape >> \o shapes

\* slide.shapes.add_shape / add_textbox: the new shape goes on top of the others
ShapesAdd(shapes, shape) == Append(shapes, shape)

\* frame.text = text: the frame's paragraphs are replaced by one per line of text
FrameText(shape, text) ==
    [shape EXCEPT !.paragraphs = [k \in 1..Len(text) |-> NewParagraph(text[k])]]

\* the assignments to a paragraph's attributes
StylePara(p, attr, val) ==
    CASE attr = "alignment" -> [p EXCEPT !.alignment = val]
      [] attr = "font.size" -> [p EXCEPT !.size = val]
      [] attr = "font.color.rgb" -> [p EXCEPT !.rgb = val]
      [] attr = "font.bold" -> [p EXCEPT !.bold = val]
      [] attr = "font.name" -> [p EXCEPT !.name = val]
      [] attr = "space_before" -> [p EXCEPT !.space_before = val]

\* the calls that style a shape's fill and outline
StyleShape(sh, attr, val) ==
    CASE attr = "fill.solid" -> [sh EXCEPT !.fill = "solid"]
      [] attr = "fill.fore_color.rgb" -> [sh EXCEPT !.rgb = val]
      [] attr = "line.fill.background" -> [sh EXCEPT !.line = "none"]

\* a deck that opens the file a previous run left at OutputPath
PresentationFromOutputFile ==
    IF file.exists
    THEN [open |-> TRUE, slide_width |-> file.deck.slide_width,
          slide_height |-> file.deck.slide_height, slides |-> file.deck.slides]
    ELSE [open |-> TRUE, slide_width |-> Inches(1000), slide_height |-> Inches(750),
          slides |-> << >>]

\* Presentation(): a new deck from the library's default template, which has
\* no slides and a 10 in x 7.5 in canvas
Presentation ==
    [open |-> TRUE, slide_width |-> Inches(1000), slide_height |-> Inches(750),
     slides |-> << >>]

\* the value of a length argument
Arg(a) == IF a.var = "" THEN a.val ELSE IF a.var = "x" THEN xy[1] ELSE xy[2]

(***************************************************************************)
(* Initial state: the program has been started, nothing has run            *)
(***************************************************************************)
Init ==
    /\ installed \in BOOLEAN
    /\ run = 1
    /\ pc = "import"
    /\ ip = 0
    /\ prs = NoPrs
    /\ locals = << >>
    /\ xy = << 0, 0 >>
    /\ exc = NoExc
    /\ caught = NoExc
    /\ out = << >>
    /\ file = NoFile
    /\ saveCalls = 0
    /\ calls = 0
    /\ built = [r \in 1..MaxRuns |-> NoPrs]

(***************************************************************************)
(* Module level, lines 13-18 and 338-339                                   *)
(***************************************************************************)
\* the imports succeed and the __main__ guard calls main()
ImportOk ==
    /\ pc = "import"
    /\ installed
    /\ pc' = "main"
    /\ UNCHANGED << installed, run, caught, ip, prs, locals, xy, exc, out, file,
                    saveCalls, calls, built >>

\* line 13 raises: no try statement encloses it, the interpreter prints the
\* traceback on stderr and exits
ImportFails ==
    /\ pc = "import"
    /\ ~installed
    /\ exc' = [cls |-> "ModuleNotFoundError", msg |-> "No module named 'pptx'",
               injected |-> FALSE]
    /\ pc' = "crashed"
    /\ UNCHANGED << installed, run, caught, ip, prs, locals, xy, out, file, saveCalls,
                    calls, built >>

\* lines 329-330: main() enters its try and calls create_presentation()
EnterMain ==
    /\ pc = "main"
    /\ pc' = "body"
    /\ ip' = 1
    /\ calls' = calls + 1
    /\ UNCHANGED << installed, run, caught, prs, locals, xy, exc, out, file, saveCalls,
                    built >>

(***************************************************************************)
(* create_presentation(), lines 20-325: one action per kind of statement   *)
(***************************************************************************)
\* the next statement of create_presentation() is an `op` statement
At(op) == pc = "body" /\ ip \in DOMAIN Script /\ Script[ip].op = op

\* the statement about to run
Stmt == Script[ip]

\* v = value
Bind(v, ref) == (v :> ref) @@ locals

\* line 24: prs = Presentation()
NewPresentation ==
    /\ At("Presentation")
    /\ prs' = Presentation
    /\ ip' = ip + 1
    /\ UNCHANGED << installed, run, caught, pc, locals, xy, exc, out, file, saveCalls,
                    calls, built >>

\* lines 27-28: prs.slide_width = Inches(13.33); prs.slide_height = Inches(7.5)
SetSlideSize ==
    /\ At("slide_size")
    /\ prs' = IF Stmt.attr = "slide_width"
              THEN [prs EXCEPT !.slide_width = Inches(Stmt.val)]
              ELSE [prs EXCEPT !.slide_height = Inches(Stmt.val)]
    /\ ip' = ip + 1
    /\ UNCHANGED << installed, run, caught, pc, locals, xy, exc, out, file, saveCalls,
                    calls, built >>

\* prs.slides.add_slide(prs.slide_layouts[6]): a slide of the blank layout,
\* which has no shapes, is appended to the deck
AddSlide ==
    /\ At("add_slide")
    /\ prs' = [prs EXCEPT !.slides = Append(@, << >>)]
    /\ locals' = Bind(Stmt.into, [slide |-> Len(prs.slides) + 1, shape |-> 0, para |-> 0])
    /\ ip' = ip + 1
    /\ UNCHANGED << installed, run, caught, pc, xy, exc, out, file, saveCalls, calls,
                    built >>

\* slide.shapes.add_shape(MSO_SHAPE.RECTANGLE, 0, 0, prs.slide_width, prs.slide_height)
AddShape ==
    /\ At("add_shape")
    /\ LET s == locals[Stmt.slide].slide
       IN  /\ prs' = [prs EXCEPT !.slides[s] = ShapesAdd(@, Background(prs))]
           /\ locals' = Bind(Stmt.into,
                             [slide |-> s, shape |-> Len(prs.slides[s]) + 1, para |-> 0])
    /\ ip' = ip + 1
    /\ UNCHANGED << installed, run, caught, pc, xy, exc, out, file, saveCalls, calls,
                    built >>

\* background.fill.solid(), background.fill.fore_color.rgb = BLUE,
\* background.line.fill.background()
StyleShapeStep ==
    /\ At("style_shape")
    /\ LET r == locals[Stmt.of]
       IN  prs' = [prs EXCEPT !.slides[r.slide][r.shape] =
                                    StyleShape(@, Stmt.attr, Stmt.val)]
    /\ ip' = ip + 1
    /\ UNCHANGED << installed, run, caught, pc, locals, xy, exc, out, file, saveCalls,
                    calls, built >>

\* slide.shapes.add_textbox(Inches(l), Inches(t), Inches(w), Inches(h))
AddTextbox ==
    /\ At("add_textbox")
    /\ LET s == locals[Stmt.slide].slide
           box == Textbox(Inches(Arg(Stmt.l)), Inches(Arg(Stmt.t)),
                          Inches(Arg(Stmt.w)), Inches(Arg(Stmt.h)))
       IN  /\ prs' = [prs EXCEPT !.slides[s] = ShapesAdd(@, box)]
           /\ locals' = Bind(Stmt.into,
                             [slide |-> s, shape |-> Len(prs.slides[s]) + 1, para |-> 0])
    /\ ip' = ip + 1
    /\ UNCHANGED << installed, run, caught, pc, xy, exc, out, file, saveCalls, calls,
                    built >>

\* frame = box.text_frame
TextFrame ==
    /\ At("text_frame")
    /\ locals' = Bind(Stmt.into, locals[Stmt.of])
    /\ ip' = ip + 1
    /\ UNCHANGED << installed, run, caught, pc, prs, xy, exc, out, file, saveCalls,
                    calls, built >>

\* frame.text = "..."
SetFrameText ==
    /\ At("frame_text")
    /\ LET r == locals[Stmt.of]
       IN  prs' = [prs EXCEPT !.slides[r.slide][r.shape] = FrameText(@, Stmt.text)]
    /\ ip' = ip + 1
    /\ UNCHANGED << installed, run, caught, pc, locals, xy, exc, out, file, saveCalls,
                    calls, built >>

\* para = frame.paragraphs[0]; IndexError when the frame has no paragraph
Paragraphs0 ==
    /\ At("paragraphs0")
    /\ LET r == locals[Stmt.of]
       IN  IF Len(prs.slides[r.slide][r.shape].paragraphs) >= 1
           THEN /\ locals' = Bind(Stmt.into, [r EXCEPT !.para = 1])
                /\ ip' = ip + 1
                /\ UNCHANGED << pc, exc >>
           ELSE /\ exc' = [cls |-> "IndexError", msg |-> "list index out of range",
                           injected |-> FALSE]
                /\ pc' = "except"
                /\ UNCHANGED << locals, ip >>
    /\ UNCHANGED << installed, run, caught, prs, xy, out, file, saveCalls, calls, built >>

\* para.alignment = ..., para.font.size = ..., para.font.color.rgb = ...,
\* para.font.bold = ..., para.font.name = ..., p.space_before = ...
StyleParaStep ==
    /\ At("style_para")
    /\ LET r == locals[Stmt.of]
       IN  prs' = [prs EXCEPT !.slides[r.slide][r.shape].paragraphs[r.para] =
                                    StylePara(@, Stmt.attr, Stmt.val)]
    /\ ip' = ip + 1
    /\ UNCHANGED << installed, run, caught, pc, locals, xy, exc, out, file, saveCalls,
                    calls, built >>

\* p = frame.add_paragraph(): an empty paragraph is appended to the frame
AddParagraph ==
    /\ At("add_paragraph")
    /\ LET r == locals[Stmt.of]
       IN  /\ prs' = [prs EXCEPT !.slides[r.slide][r.shape].paragraphs =
                                        Append(@, NewParagraph(""))]
           /\ locals' = Bind(Stmt.into,
                             [r EXCEPT !.para =
                                 Len(prs.slides[r.slide][r.shape].paragraphs) + 1])
    /\ ip' = ip + 1
    /\ UNCHANGED << installed, run, caught, pc, xy, exc, out, file, saveCalls, calls,
                    built >>

\* p.text = f"<bullet> {item}"
SetParaText ==
    /\ At("para_text")
    /\ LET r == locals[Stmt.of]
       IN  prs' = [prs EXCEPT !.slides[r.slide][r.shape].paragraphs[r.para].text =
                                    Stmt.text]
    /\ ip' = ip + 1
    /\ UNCHANGED << installed, run, caught, pc, locals, xy, exc, out, file, saveCalls,
                    calls, built >>

\* line 249: x, y = positions[i]; IndexError when i is not an index of the list
Unpack ==
    /\ At("unpack")
    /\ IF Stmt.i + 1 \in DOMAIN Stmt.seq
       THEN /\ xy' = Stmt.seq[Stmt.i + 1]
            /\ ip' = ip + 1
            /\ UNCHANGED << pc, exc >>
       ELSE /\ exc' = [cls |-> "IndexError", msg |-> "list index out of range",
                       injected |-> FALSE]
            /\ pc' = "except"
            /\ UNCHANGED << xy, ip >>
    /\ UNCHANGED << installed, run, caught, prs, locals, out, file, saveCalls, calls,
                    built >>

\* line 322: prs.save(path) returns: the file holds the deck
Save ==
    /\ At("save")
    /\ saveCalls' = saveCalls + 1
    /\ file' = [exists |-> TRUE, complete |-> TRUE, deck |-> prs]
    /\ built' = [built EXCEPT ![run] = prs]
    /\ ip' = ip + 1
    /\ UNCHANGED << installed, run, caught, pc, prs, locals, xy, exc, out, calls >>

\* line 322: prs.save(path) raises (the path is not writable, the disk is
\* full, ...): the file is left as it was or holds a part of the deck
SaveFails ==
    /\ At("save")
    /\ saveCalls' = saveCalls + 1
    /\ \E cls \in SaveErrors, msg \in Messages :
          exc' = [cls |-> cls, msg |-> msg, injected |-> TRUE]
    /\ \/ file' = file
       \/ file' = [exists |-> TRUE, complete |-> FALSE, deck |-> NoPrs]
    /\ pc' = "except"
    /\ UNCHANGED << installed, run, caught, ip, prs, locals, xy, out, calls, built >>

\* lines 323-325: print(...)
PrintStep ==
    /\ At("print")
    /\ out' = Append(out, Stmt.text)
    /\ ip' = ip + 1
    /\ UNCHANGED << installed, run, caught, pc, prs, locals, xy, exc, file, saveCalls,
                    calls, built >>

\* a statement of the construction raises: the deck is left as it is and the
\* exception propagates out of create_presentation()
Raise ==
    /\ pc = "body"
    /\ ip \in DOMAIN Script
    /\ Script[ip].op \notin {"save", "print"}
    /\ \E cls \in ConstructionErrors, msg \in Messages :
          exc' = [cls |-> cls, msg |-> msg, injected |-> TRUE]
    /\ pc' = "except"
    /\ UNCHANGED << installed, run, caught, ip, prs, locals, xy, out, file, saveCalls,
                    calls, built >>

\* create_presentation() returns; the try of main() ends and main() returns
Return ==
    /\ pc = "body"
    /\ ip = Len(Script) + 1
    /\ pc' = "done"
    /\ UNCHANGED << installed, run, caught, ip, prs, locals, xy, exc, out, file,
                    saveCalls, calls, built >>

(***************************************************************************)
(* main(), lines 327-336: the except clauses                               *)
(***************************************************************************)
\* lines 331-334: except ImportError
CatchImportError ==
    /\ pc = "except"
    /\ ExceptClause(exc) = "ImportError"
    /\ out' = out \o InstallHint
    /\ caught' = exc
    /\ exc' = NoExc
    /\ pc' = "done"
    /\ UNCHANGED << installed, run, ip, prs, locals, xy, file, saveCalls,
                    calls, built >>

\* lines 335-336: except Exception as e
CatchException ==
    /\ pc = "except"
    /\ ExceptClause(exc) = "Exception"
    /\ out' = Append(out, ErrorLine(exc))
    /\ caught' = exc
    /\ exc' = NoExc
    /\ pc' = "done"
    /\ UNCHANGED << installed, run, ip, prs, locals, xy, file, saveCalls,
                    calls, built >>

\* the program is started again: a new process, with nothing of the previous
\* run but the file system
Rerun ==
    /\ pc \in {"done", "crashed"}
    /\ run < MaxRuns
    /\ run' = run + 1
    /\ pc' = "import"
    /\ ip' = 0
    /\ prs' = NoPrs
    /\ locals' = << >>
    /\ xy' = << 0, 0 >>
    /\ exc' = NoExc
    /\ caught' = NoExc
    /\ out' = << >>
    /\ saveCalls' = 0
    /\ calls' = 0
    /\ UNCHANGED << installed, file, built >>

Next ==
    \/ ImportOk
    \/ ImportFails
    \/ EnterMain
    \/ NewPresentation
    \/ SetSlideSize
    \/ AddSlide
    \/ AddShape
    \/ StyleShapeStep
    \/ AddTextbox
    \/ TextFrame
    \/ SetFrameText
    \/ Paragraphs0
    \/ StyleParaStep
    \/ AddParagraph
    \/ SetParaText
    \/ Unpack
    \/ Save
    \/ SaveFails
    \/ PrintStep
    \/ Raise
    \/ Return
    \/ CatchImportError
    \/ CatchException
    \/ Rerun

Spec == Init /\ [][Next]_vars

(***************************************************************************)
(* Properties                                                              *)
(***************************************************************************)
\* the run has ended: main() has returned, or the interpreter has exited on
\* an unhandled exception
Terminated == pc \in {"done", "crashed"}

\* create_presentation() has run to its end and main() has returned
Completed == pc = "done" /\ caught = NoExc

\* the exception e was raised by a statement of the construction, before save
RaisedInConstruction(e) ==
    /\ e # NoExc
    /\ ip \in DOMAIN Script
    /\ Script[ip].op \notin {"save", "print"}

\* the three lines of the success report, lines 323-325
SuccessReport ==
    << "[v] PowerPoint presentation created: Agentic_Workflow_Reviewer_Presentation.pptx",
       "Slides created: Title, Problem Statement, Architecture, Kiro Features, Thank You",
       "Ready for Kiro Hackathon presentation!" >>

\* the three lines of the installation hint, lines 332-334
HintReport ==
    << "Error: python-pptx library not found",
       "Install with: pip install python-pptx",
       "Then run: python create_powerpoint.py" >>

\* the text of the first paragraph of the first text box of each slide
SlideTitles(deck) ==
    [s \in DOMAIN deck.slides |-> deck.slides[s][2].paragraphs[1].text]

\* the decks this run and the previous ones have saved, and the one in the file
SavedDecks ==
    {built[r] : r \in {q \in 1..MaxRuns : built[q].open}}
        \cup (IF file.complete THEN {file.deck} ELSE {})

\* C1: when the library is missing, the run ends in main()'s ImportError
\* handler: no unhandled exception, and the installation hint is printed.
C1_MissingLibraryIsReported ==
    (~installed /\ Terminated) =>
        (pc = "done" /\ exc = NoExc /\ out = HintReport)

\* C2: a run of create_presentation() that completes has invoked save exactly
\* once, and the deck it saved has exactly five slides, in the order title,
\* problem statement, architecture, features, closing.
C2_OneFileFiveSlides ==
    Completed =>
        /\ saveCalls = 1
        /\ file = [exists |-> TRUE, complete |-> TRUE, deck |-> built[run]]
        /\ Len(built[run].slides) = 5
        /\ SlideTitles(built[run]) =
              << "Agentic Workflow Reviewer",
                 "Problem Statement & Vision",
                 "Multi-Agent System Architecture",
                 "Kiro Features Leveraged (30% of Grade)",
                 "Thank You & Q&A" >>

\* C2 witness: a run has completed and saved its deck
C2_Witness == Completed /\ built[run].open /\ saveCalls = 1

\* C3: an exception other than ImportError raised by a statement of the
\* construction is caught by main(), which prints one error line made of the
\* exception's message; save has not been invoked and the run has saved no deck.
C3_ConstructionFailureIsCaught ==
    /\ (pc = "except" /\ RaisedInConstruction(exc) /\ ~IsInstance(exc.cls, "ImportError")) =>
          /\ IsInstance(exc.cls, "Exception")
          /\ saveCalls = 0
          /\ out = << >>
    /\ (pc = "done" /\ RaisedInConstruction(caught) /\ ~IsInstance(caught.cls, "ImportError")) =>
          /\ exc = NoExc
          /\ out = << "Error creating presentation: " \o caught.msg >>
          /\ saveCalls = 0
          /\ built[run] = NoPrs
    /\ (pc = "crashed" => calls = 0)

\* C3 witness: a ValueError raised while the third slide is being built has
\* been handled
C3_Witness ==
    /\ pc = "done"
    /\ caught.cls = "ValueError"
    /\ RaisedInConstruction(caught)
    /\ Len(prs.slides) = 3

\* the first shape of slide s of the deck is a rectangle that covers the canvas
HasBackground(deck, s) ==
    /\ Len(deck.slides[s]) >= 1
    /\ deck.slides[s][1].kind = "rectangle"
    /\ deck.slides[s][1].left = 0
    /\ deck.slides[s][1].top = 0
    /\ deck.slides[s][1].width = deck.slide_width
    /\ deck.slides[s][1].height = deck.slide_height

\* C4: once a slide has a shape, its first shape is a rectangle at (0, 0) of
\* the deck's slide_width x slide_height, whatever is inserted later; every
\* slide of a saved deck has it.
C4_BackgroundCoversCanvas ==
    /\ \A s \in DOMAIN prs.slides :
          Len(prs.slides[s]) >= 1 => HasBackground(prs, s)
    /\ \A d \in SavedDecks :
          /\ Len(d.slides) = 5
          /\ \A s \in DOMAIN d.slides : HasBackground(d, s)

\* C4 witness: a deck has been saved, each of its slides holding text boxes
\* above the background
C4_Witness ==
    /\ pc = "done"
    /\ built[run].open
    /\ \A s \in DOMAIN built[run].slides : Len(built[run].slides[s]) >= 3

\* the shape lies within a canvas of 13.33 in x 7.5 in, in EMU
InsideCanvas(sh) ==
    /\ sh.left >= 0
    /\ sh.top >= 0
    /\ sh.left + sh.width <= (1333 * 914400) \div 100
    /\ sh.top + sh.height <= (750 * 914400) \div 100

\* C5: every shape of every slide lies within the 13.33 in x 7.5 in canvas,
\* after every insertion.
C5_ShapesInsideCanvas ==
    \A s \in DOMAIN prs.slides :
        \A j \in DOMAIN prs.slides[s] :
            /\ InsideCanvas(prs.slides[s][j])
            /\ prs.slide_width = (1333 * 914400) \div 100
            /\ prs.slide_height = (750 * 914400) \div 100

\* C5 witness: the four feature boxes are on slide 4
C5_Witness ==
    /\ Len(prs.slides) = 4
    /\ Len(prs.slides[4]) = 6
    /\ prs.slides[4][6].left = 5943600

\* the paragraphs of the shape are the heading followed by one bullet
\* paragraph per item, in the order of the list
IsBulletBox(sh, heading, items) ==
    /\ sh.kind = "textbox"
    /\ Len(sh.paragraphs) = 1 + Len(items)
    /\ sh.paragraphs[1].text = heading
    /\ \A k \in 1..Len(items) : sh.paragraphs[k + 1].text = "* " \o items[k]

\* C6: in a saved deck every bullet text box holds its heading followed by
\* one bullet paragraph per item of its list, in list order.
C6_BulletBoxes ==
    \A d \in SavedDecks :
        /\ IsBulletBox(d.slides[2][3], "The Challenge", challenges)
        /\ IsBulletBox(d.slides[2][4], "Why Agents + Kiro?", solutions)
        /\ \A i \in 1..Len(features) :
              IsBulletBox(d.slides[4][2 + i], "[v] " \o features[i][1], features[i][2])
        /\ Len(d.slides[4]) = 2 + Len(features)
        /\ IsBulletBox(d.slides[5][3], "Key Takeaways", takeaways)

\* C6 witness: a deck has been saved whose challenge box has five paragraphs
C6_Witness ==
    /\ built[run].open
    /\ Len(built[run].slides[2][3].paragraphs) = 5

\* C7: within a run save is invoked at most once, and once it has been
\* invoked the deck is never changed again.
C7_SaveIsLast ==
    [][run' = run =>
          /\ saveCalls' <= 1
          /\ saveCalls >= 1 => (prs' = prs /\ saveCalls' = saveCalls)]_vars

\* C7 witness: the run has ended after its save
C7_Witness == pc = "done" /\ saveCalls = 1 /\ Len(prs.slides) = 5

\* the slides, the shapes of each slide and the text of each paragraph
TextContent(deck) ==
    [s \in DOMAIN deck.slides |->
        [j \in DOMAIN deck.slides[s] |->
            [k \in DOMAIN deck.slides[s][j].paragraphs |->
                deck.slides[s][j].paragraphs[k].text]]]

\* C8: the decks saved by any two runs have the same slides, the same shapes
\* on each slide and the same text in every paragraph.
C8_RunsBuildTheSameDeck ==
    \A r1, r2 \in 1..MaxRuns :
        (built[r1].open /\ built[r2].open) =>
            TextContent(built[r1]) = TextContent(built[r2])

\* C8 witness: the second run has saved a deck after the first one did
C8_Witness == run = 2 /\ built[1].open /\ built[2].open

\* C9: when main() has returned, exactly one report has been printed: the
\* success report if and only if save returned; otherwise the installation
\* hint for an ImportError and the error line with the message for any other
\* exception, a failure of save included; create_presentation() was invoked
\* once.  Until then the run can always take a step.
C9_OneOutcomeReport ==
    /\ calls <= 1
    /\ pc = "done" =>
          /\ calls = 1
          /\ exc = NoExc
          /\ (out = SuccessReport) <=> (saveCalls = 1 /\ built[run].open)
          /\ (out = SuccessReport) <=> (caught = NoExc)
          /\ (caught # NoExc /\ IsInstance(caught.cls, "ImportError")) =>
                out = HintReport
          /\ (caught # NoExc /\ ~IsInstance(caught.cls, "ImportError")) =>
                out = << "Error creating presentation: " \o caught.msg >>
    /\ pc \in {"main", "body", "except"} => ENABLED Next

\* C9 witness: save has raised a PermissionError and main() has reported it
C9_Witness ==
    /\ pc = "done"
    /\ caught.cls = "PermissionError"
    /\ saveCalls = 1
    /\ out = << "Error creating presentation: " \o caught.msg >>

\* the interiors of the two shapes are disjoint
Disjoint(a, b) ==
    \/ a.left + a.width <= b.left
    \/ b.left + b.width <= a.left
    \/ a.top + a.height <= b.top
    \/ b.top + b.height <= a.top

\* C10: no two text boxes of a slide overlap, and the feature loop never
\* indexes positions out of range.
C10_TextBoxesDoNotOverlap ==
    /\ \A s \in DOMAIN prs.slides :
          \A i, j \in DOMAIN prs.slides[s] :
              (i < j /\ prs.slides[s][i].kind = "textbox"
                     /\ prs.slides[s][j].kind = "textbox") =>
                  Disjoint(prs.slides[s][i], prs.slides[s][j])
    /\ exc.cls = "IndexError" => exc.injected
    /\ caught.cls = "IndexError" => caught.injected

\* C10 witness: the 2x2 grid of slide 4 is complete
C10_Witness ==
    /\ Len(prs.slides) >= 4
    /\ Len(prs.slides[4]) = 6
    /\ prs.slides[4][6].top = 3657600

=============================================================================
